---- MODULE Spec2Model ----
(***************************************************************************)
(* State-machine model of the RoboVac Home Assistant integration:          *)
(*   custom_components/robovac/robovac.py   (RoboVac: command translation) *)
(*   custom_components/robovac/vacuum.py    (RoboVacEntity: update/retry   *)
(*                                           controller, activity, hooks)  *)
(*   custom_components/robovac/vacuums/T*.py (model declarations)          *)
(***************************************************************************)
EXTENDS Integers, Sequences, FiniteSets, TLC

(***************************************************************************)
(* Python values.  A DP value, an attribute or a table entry is None, a    *)
(* str, an int or a bool; one record shape carries all four so that any    *)
(* two values can be compared.                                             *)
(***************************************************************************)
None == [k |-> "none", s |-> "", n |-> 0]

S(x) == [k |-> "str", s |-> x, n |-> 0]

I(i) == [k |-> "int", s |-> "", n |-> i]

B(b) == [k |-> "bool", s |-> "", n |-> IF b THEN 1 ELSE 0]

IsNum(v) == v.k \in {"int", "bool"}

\* Python ==  (an int and a bool compare by number: 0 == False)
PyEq(a, b) == IF IsNum(a) /\ IsNum(b) THEN a.n = b.n ELSE a = b

\* Python truthiness: None, "", 0 and False are falsy
PyTruthy(v) ==
    CASE v.k = "none" -> FALSE
      [] v.k = "str"  -> v.s # ""
      [] OTHER        -> v.n # 0

\* Python `v in [a, b, ...]`
PyInList(v, list) == \E x \in list : PyEq(v, x)

Digit == <<"0", "1", "2", "3", "4", "5", "6", "7", "8", "9">>

RECURSIVE NatToStr(_)
NatToStr(n) == IF n < 10 THEN Digit[n + 1]
               ELSE NatToStr(n \div 10) \o Digit[(n % 10) + 1]

IntToStr(i) == IF i < 0 THEN "-" \o NatToStr(0 - i) ELSE NatToStr(i)

\* Python str(v)
PyStr(v) ==
    CASE v.k = "none" -> "None"
      [] v.k = "str"  -> v.s
      [] v.k = "int"  -> IntToStr(v.n)
      [] OTHER        -> IF v.n = 1 THEN "True" ELSE "False"

(***************************************************************************)
(* Model registry: the model declarations of vacuums/.  A command entry    *)
(* is its "code" and its "values": absent, a list of literals, or a dict.  *)
(***************************************************************************)
NoMap == [x \in {} |-> None]

CmdPlain(code) == [code |-> code, vkind |-> "none", vmap |-> NoMap, vlist |-> {}]

CmdList(code, lits) == [code |-> code, vkind |-> "list", vmap |-> NoMap, vlist |-> lits]

CmdMap(code, m) == [code |-> code, vkind |-> "map", vmap |-> m, vlist |-> {}]

T2080_commands ==
    [ START_PAUSE   |-> CmdPlain(I(2)),
      DIRECTION     |-> CmdList(I(176), {"forward", "back", "left", "right"}),
      MODE          |-> CmdMap(I(152),
                         ("BBoCCAE=" :> S("auto")) @@ ("AggN" :> S("pause")) @@
                         ("AA==" :> S("Spot")) @@ ("AggG" :> S("return")) @@
                         ("AggO" :> S("Nosweep"))),
      STATUS        |-> CmdMap(I(153),
                         ("CAoAEAUyAggB" :> S("Paused")) @@
                         ("CAoCCAEQBTIA" :> S("Room Cleaning")) @@
                         ("CAoCCAEQBVIA" :> S("Room Positioning")) @@
                         ("DAoCCAEQBTICEAFSAA==" :> S("Room Positioning")) @@
                         ("CgoCCAEQBTICCAE=" :> S("Room Paused")) @@
                         ("BhAHQgBSAA==" :> S("Standby")) @@
                         ("BgoAEAUyAA==" :> S("Standby")) @@
                         ("BBAHQgA=" :> S("Heading Home")) @@
                         ("BBADGgA=" :> S("Charging")) @@
                         ("BhADGgIIAQ==" :> S("Completed")) @@
                         ("AA==" :> S("Standby")) @@
                         ("AgoA" :> S("Heading Home")) @@
                         ("AhAB" :> S("Sleeping")) @@
                         ("DAoCCAEQCRoCCAEyAA==" :> S("Adding Water")) @@
                         ("BhAJOgIQAg==" :> S("Drying Mop")) @@
                         ("CBAJGgA6AhAC" :> S("Drying Mop")) @@
                         ("ChAJGgIIAToCEAI=" :> S("Drying Mop")) @@
                         ("EAoCCAEQCRoCCAEyADoCEAE=" :> S("Washing Mop")) @@
                         ("BhAJOgIQAQ==" :> S("Washing Mop")) @@
                         ("AhAJ" :> S("Removing Dirty Water")) @@
                         ("BhAGGgIIAQ==" :> S("Manual Control")) @@
                         ("CgoAEAkaAggBMgA=" :> S("Auto Cleaning"))),
      RETURN_HOME   |-> CmdList(I(152), {"AggB"}),
      LOCATE        |-> CmdPlain(I(103)),
      ERROR         |-> CmdPlain(I(106)),
      FAN_SPEED     |-> CmdMap(I(158),
                         ("quiet" :> S("Quiet")) @@ ("standard" :> S("Standard")) @@
                         ("turbo" :> S("Turbo")) @@ ("max" :> S("Max"))),
      BATTERY       |-> CmdPlain(I(163)),
      BOOST_IQ      |-> CmdPlain(I(159)),
      CLEANING_TIME |-> CmdPlain(I(6)),
      CLEANING_AREA |-> CmdPlain(I(7)) ]

T2080_activity_mapping ==
    ("AUTO" :> "cleaning") @@ ("POSITION" :> "cleaning") @@ ("Paused" :> "paused") @@
    ("Auto Cleaning" :> "cleaning") @@ ("Room Cleaning" :> "cleaning") @@
    ("Room Positioning" :> "cleaning") @@ ("Room Paused" :> "paused") @@
    ("SPOT" :> "cleaning") @@ ("SPOT_POSITION" :> "cleaning") @@
    ("SPOT_PAUSE" :> "paused") @@ ("START_MANUAL" :> "cleaning") @@
    ("Standby" :> "idle") @@ ("Heading Home" :> "returning") @@
    ("Charging" :> "docked") @@ ("Completed" :> "docked") @@ ("Sleeping" :> "idle") @@
    ("Drying Mop" :> "docked") @@ ("Washing Mop" :> "docked") @@
    ("Removing Dirty Water" :> "docked") @@ ("Emptying Dust" :> "docked") @@
    ("Manual Control" :> "cleaning")

T2193_commands ==
    [ START_PAUSE |-> CmdPlain(I(2)),
      DIRECTION   |-> CmdMap(I(3),
                       ("forward" :> S("Forward")) @@ ("back" :> S("Back")) @@
                       ("left" :> S("Left")) @@ ("right" :> S("Right"))),
      MODE        |-> CmdMap(I(5),
                       ("auto" :> S("Auto")) @@ ("small_room" :> S("SmallRoom")) @@
                       ("spot" :> S("Spot")) @@ ("edge" :> S("Edge")) @@
                       ("nosweep" :> S("Nosweep"))),
      STATUS      |-> CmdPlain(I(15)),
      RETURN_HOME |-> CmdPlain(I(101)),
      FAN_SPEED   |-> CmdMap(I(102),
                       ("quiet" :> S("Quiet")) @@ ("standard" :> S("Standard")) @@
                       ("turbo" :> S("Turbo")) @@ ("max" :> S("Max"))),
      LOCATE      |-> CmdPlain(I(103)),
      BATTERY     |-> CmdPlain(I(104)),
      ERROR       |-> CmdPlain(I(106)) ]

T2276_commands ==
    [ START_PAUSE |-> CmdMap(S("1"), ("start" :> B(TRUE)) @@ ("stop" :> B(FALSE))),
      STATUS      |-> CmdPlain(S("15")),
      MODE        |-> CmdMap(S("5"),
                       ("auto" :> S("auto")) @@ ("spot" :> S("spot")) @@
                       ("edge" :> S("edge"))),
      RETURN_HOME |-> CmdMap(S("7"), ("return_home" :> B(TRUE))),
      FAN_SPEED   |-> CmdMap(S("102"),
                       ("max" :> S("Max")) @@ ("mid" :> S("Mid")) @@ ("min" :> S("Min"))),
      BATTERY     |-> CmdPlain(S("104")),
      ERROR       |-> CmdPlain(S("2")) ]

T2278_commands ==
    [ MODE        |-> CmdMap(I(152),
                       ("small_room" :> S("AA==")) @@ ("pause" :> S("AggN")) @@
                       ("edge" :> S("AggG")) @@ ("auto" :> S("BBoCCAE=")) @@
                       ("nosweep" :> S("AggO"))),
      STATUS      |-> CmdPlain(I(173)),
      RETURN_HOME |-> CmdMap(I(153), ("return_home" :> S("AggB"))),
      FAN_SPEED   |-> CmdMap(I(154), ("fan_speed" :> S("AgkBCgIKAQoDCgEKBAoB"))),
      LOCATE      |-> CmdMap(I(153), ("locate" :> S("AggC"))),
      BATTERY     |-> CmdPlain(I(172)),
      ERROR       |-> CmdPlain(I(169)) ]

T2320_commands ==
    [ START_PAUSE |-> CmdMap(I(2), ("start" :> B(TRUE)) @@ ("pause" :> B(FALSE))),
      MODE        |-> CmdMap(I(152),
                       ("auto" :> S("auto")) @@ ("return" :> S("return")) @@
                       ("pause" :> S("pause")) @@ ("small_room" :> S("small_room")) @@
                       ("single_room" :> S("single_room"))),
      STATUS      |-> CmdPlain(I(173)),
      RETURN_HOME |-> CmdMap(I(153), ("return_home" :> B(TRUE))),
      FAN_SPEED   |-> CmdMap(I(154),
                       ("Standard" :> S("standard")) @@ ("Boost IQ" :> S("boost_iq")) @@
                       ("Max" :> S("max")) @@ ("Quiet" :> S("Quiet"))),
      LOCATE      |-> CmdMap(I(153), ("locate" :> B(TRUE))),
      BATTERY     |-> CmdPlain(I(172)),
      ERROR       |-> CmdPlain(I(169)) ]

\* robovac_features of each model declaration (only the bits the entity tests)
T2080_robovac_features ==
    {"CLEANING_TIME", "CLEANING_AREA", "DO_NOT_DISTURB", "AUTO_RETURN", "ROOM",
     "ZONE", "BOOST_IQ", "MAP", "CONSUMABLES"}

T2193_robovac_features ==
    {"CLEANING_TIME", "CLEANING_AREA", "DO_NOT_DISTURB", "AUTO_RETURN", "ROOM",
     "ZONE", "BOOST_IQ", "MAP", "CONSUMABLES"}

T2276_robovac_features == {"DO_NOT_DISTURB", "BOOST_IQ"}

T2278_robovac_features == {"DO_NOT_DISTURB", "BOOST_IQ"}

T2320_robovac_features == {"DO_NOT_DISTURB", "BOOST_IQ"}

T2080_homeassistant_features ==
    {"BATTERY", "CLEAN_SPOT", "FAN_SPEED", "LOCATE", "PAUSE", "RETURN_HOME",
     "SEND_COMMAND", "START", "STATE", "STOP", "MAP"}

T2193_homeassistant_features ==
    {"BATTERY", "CLEAN_SPOT", "FAN_SPEED", "LOCATE", "PAUSE", "RETURN_HOME",
     "SEND_COMMAND", "START", "STATE", "STOP", "MAP"}

T2276_homeassistant_features ==
    {"BATTERY", "FAN_SPEED", "LOCATE", "PAUSE", "RETURN_HOME", "SEND_COMMAND",
     "START", "STATE", "STOP"}

T2278_homeassistant_features ==
    {"BATTERY", "FAN_SPEED", "LOCATE", "PAUSE", "RETURN_HOME", "SEND_COMMAND",
     "START", "STATE", "STOP"}

T2320_homeassistant_features ==
    {"BATTERY", "FAN_SPEED", "LOCATE", "PAUSE", "RETURN_HOME", "SEND_COMMAND",
     "START", "STATE", "STOP"}

\* The registry: model code -> declaration (the declarations present in vacuums/)
ROBOVAC_MODELS == {"T2080", "T2193", "T2276", "T2278", "T2320"}

\* The closed set of logical command identifiers (enum RobovacCommand)
RobovacCommand ==
    {"START_PAUSE", "DIRECTION", "MODE", "STATUS", "RETURN_HOME", "FAN_SPEED",
     "LOCATE", "BATTERY", "ERROR", "CLEANING_AREA", "CLEANING_TIME", "BOOST_IQ",
     "AUTO_RETURN", "DO_NOT_DISTURB", "CONSUMABLES"}

\* Global default DP codes (enum TuyaCodes) and default consumables codes
TuyaCodes ==
    [ START_PAUSE |-> "2", DIRECTION |-> "3", MODE |-> "5", STATUS |-> "15",
      RETURN_HOME |-> "101", FAN_SPEED |-> "102", LOCATE |-> "103",
      BATTERY_LEVEL |-> "104", ERROR_CODE |-> "106", DO_NOT_DISTURB |-> "107",
      CLEANING_TIME |-> "109", CLEANING_AREA |-> "110", BOOST_IQ |-> "118",
      ROOM_CLEAN |-> "124", AUTO_RETURN |-> "135" ]

TUYA_CONSUMABLES_CODES == <<"142", "116">>

\* model_details.commands of a registered model
commands(mc) ==
    CASE mc = "T2080" -> T2080_commands
      [] mc = "T2193" -> T2193_commands
      [] mc = "T2276" -> T2276_commands
      [] mc = "T2278" -> T2278_commands
      [] mc = "T2320" -> T2320_commands

\* RoboVac.getRoboVacFeatures
getRoboVacFeatures(mc) ==
    CASE mc = "T2080" -> T2080_robovac_features
      [] mc = "T2193" -> T2193_robovac_features
      [] mc = "T2276" -> T2276_robovac_features
      [] mc = "T2278" -> T2278_robovac_features
      [] mc = "T2320" -> T2320_robovac_features

\* RoboVac.getHomeAssistantFeatures
getHomeAssistantFeatures(mc) ==
    CASE mc = "T2080" -> T2080_homeassistant_features
      [] mc = "T2193" -> T2193_homeassistant_features
      [] mc = "T2276" -> T2276_homeassistant_features
      [] mc = "T2278" -> T2278_homeassistant_features
      [] mc = "T2320" -> T2320_homeassistant_features

\* Whether the declaration carries an activity_mapping (only T2080 does)
HasActivityMapping(mc) == mc = "T2080"

\* RoboVac.getRoboVacActivityMapping (read only when HasActivityMapping)
getRoboVacActivityMapping(mc) == T2080_activity_mapping

(***************************************************************************)
(* Command translator (robovac.py)                                         *)
(***************************************************************************)
\* RoboVac._get_command_values returns a dict (not None)
HasCommandValues(mc, cmd) ==
    /\ cmd \in DOMAIN commands(mc)
    /\ commands(mc)[cmd].vkind = "map"

\* RoboVac._get_command_values, when it is not None
CommandValues(mc, cmd) == commands(mc)[cmd].vmap

\* RoboVac.getRoboVacCommandValue: human value -> device value.
\* command_name is an enum member or any other identifier (ValueError, caught).
AltGetRoboVacCommandValue(mc, command_name, value) ==
    IF /\ command_name \in RobovacCommand
       /\ HasCommandValues(mc, command_name)
       /\ value.k = "str"
       /\ value.s \in DOMAIN CommandValues(mc, command_name)
    THEN S(PyStr(CommandValues(mc, command_name)[value.s]))
    ELSE None

getRoboVacCommandValue(mc, command_name, value) ==
    IF /\ command_name \in RobovacCommand
       /\ HasCommandValues(mc, command_name)
       /\ value.k = "str"
       /\ value.s \in DOMAIN CommandValues(mc, command_name)
    THEN S(PyStr(CommandValues(mc, command_name)[value.s]))
    ELSE value

\* The lookup of getRoboVacHumanReadableValue hits: str(value) is a key and
\* values[value] does not raise KeyError (value itself is that key)
HumanReadableHit(mc, command_name, value) ==
    /\ command_name \in RobovacCommand
    /\ HasCommandValues(mc, command_name)
    /\ PyStr(value) \in DOMAIN CommandValues(mc, command_name)
    /\ value.k = "str"

\* The number of _LOGGER.warning calls of getRoboVacHumanReadableValue
HumanReadableWarnings(mc, command_name, value) ==
    IF HumanReadableHit(mc, command_name, value) THEN 0 ELSE 1

\* RoboVac.getRoboVacHumanReadableValue: device value -> human value
AltGetRoboVacHumanReadableValue(mc, command_name, value) ==
    IF HumanReadableHit(mc, command_name, value)
    THEN S(PyStr(CommandValues(mc, command_name)[value.s]))
    ELSE None

getRoboVacHumanReadableValue(mc, command_name, value) ==
    IF HumanReadableHit(mc, command_name, value)
    THEN S(PyStr(CommandValues(mc, command_name)[value.s]))
    ELSE value

(***************************************************************************)
(* DP-code resolver                                                        *)
(***************************************************************************)
\* command_to_dps in RoboVac.getDpsCodes
AltDpsName(cmd) == cmd

DpsName(cmd) ==
    CASE cmd = "BATTERY" -> "BATTERY_LEVEL"
      [] cmd = "ERROR"   -> "ERROR_CODE"
      [] OTHER           -> cmd

\* RoboVac.getDpsCodes
getDpsCodes(mc) ==
    [d \in {DpsName(c) : c \in DOMAIN commands(mc)} |->
        PyStr(commands(mc)[CHOOSE c \in DOMAIN commands(mc) : DpsName(c) = d].code)]

\* getDpsCodes() of every registered model, computed once
DpsCodesOf == [mc \in ROBOVAC_MODELS |-> getDpsCodes(mc)]

\* getattr(TuyaCodes, code_name, None), "" when there is none
DefaultDpsCode(code_name) ==
    IF code_name \in DOMAIN TuyaCodes THEN TuyaCodes[code_name] ELSE ""

\* RoboVacEntity._get_dps_code
get_dps_code(hasVacuum, mc, code_name) ==
    IF ~hasVacuum THEN DefaultDpsCode(code_name)
    ELSE IF code_name \in DOMAIN DpsCodesOf[mc] THEN DpsCodesOf[mc][code_name]
    ELSE DefaultDpsCode(code_name)

\* RoboVacEntity._get_consumables_codes (no declaration of vacuums/ declares
\* CONSUMABLES, and str(code) of a declared numeric code holds no comma)
get_consumables_codes(hasVacuum, mc) ==
    IF ~hasVacuum THEN TUYA_CONSUMABLES_CODES
    ELSE IF "CONSUMABLES" \in DOMAIN DpsCodesOf[mc]
         THEN <<DpsCodesOf[mc]["CONSUMABLES"]>>
         ELSE TUYA_CONSUMABLES_CODES

(***************************************************************************)
(* Snapshots: a dict of DP values is a function on the DP keys the entity  *)
(* reads for its model; a key that is absent holds None (dict.get).        *)
(***************************************************************************)
ReadFields ==
    {"BATTERY_LEVEL", "STATUS", "ERROR_CODE", "MODE", "FAN_SPEED", "CLEANING_AREA",
     "CLEANING_TIME", "AUTO_RETURN", "DO_NOT_DISTURB", "BOOST_IQ", "LOCATE"}

DpKeys(mc) ==
    {get_dps_code(TRUE, mc, f) : f \in ReadFields}
        \cup {get_consumables_codes(TRUE, mc)[i] :
                i \in 1..Len(get_consumables_codes(TRUE, mc))}

\* dict.get(key)
Get(d, key) == IF key \in DOMAIN d THEN d[key] ELSE None

\* `not d` for a dict: no key holds a value
IsEmptyDict(d) == \A key \in DOMAIN d : d[key] = None

EmptyDps(mc) == [c \in DpKeys(mc) |-> None]

(***************************************************************************)
(* Activity derivation: RoboVacEntity.activity                             *)
(***************************************************************************)
SENTINEL_NO_STATE == I(0)

\* The error test of the activity property:
\*   type(e) is not None and e and e not in [0, "no_error"]
ErrorActive(e) == PyTruthy(e) /\ ~PyInList(e, {I(0), S("no_error")})

\* The legacy heuristic over status labels (models without activity_mapping)
AltLegacyActivity(st) ==
    IF st = S("Charging") \/ st = S("completed") THEN "docked"
    ELSE IF st = S("Recharge") THEN "returning"
    ELSE IF st = S("Sleeping") \/ st = S("standby") THEN "idle"
    ELSE IF st = S("Paused") THEN "idle"
    ELSE "cleaning"

LegacyActivity(st) ==
    IF st = S("Charging") \/ st = S("completed") THEN "docked"
    ELSE IF st = S("Recharge") THEN "returning"
    ELSE IF st = S("Sleeping") \/ st = S("standby") THEN "idle"
    ELSE IF st = S("Paused") THEN "paused"
    ELSE "cleaning"

\* activity_mapping.get(str(status)), "none" for a miss
AltMappedActivity(amap, st) ==
    IF PyStr(st) \in DOMAIN amap THEN amap[PyStr(st)] ELSE LegacyActivity(st)

MappedActivity(amap, st) ==
    IF PyStr(st) \in DOMAIN amap THEN amap[PyStr(st)] ELSE "none"

\* The activity property; "none" is Python None (no activity available)
AltActivityOf(hasMap, amap, st, err) ==
    IF st = None \/ PyEq(st, SENTINEL_NO_STATE) THEN "none"
    ELSE IF hasMap /\ PyStr(st) \in DOMAIN amap THEN amap[PyStr(st)]
    ELSE IF ErrorActive(err) THEN "error"
    ELSE IF hasMap THEN MappedActivity(amap, st)
    ELSE LegacyActivity(st)

ActivityOf(hasMap, amap, st, err) ==
    IF st = None \/ PyEq(st, SENTINEL_NO_STATE) THEN "none"
    ELSE IF ErrorActive(err) THEN "error"
    ELSE IF hasMap THEN MappedActivity(amap, st)
    ELSE LegacyActivity(st)

(***************************************************************************)
(* Bounds of the model                                                     *)
(***************************************************************************)
\* update_failures is unbounded in the code; polls stop failing at this count
MaxFailures == 4

\* int(str) is decided for the decimal literals of -MaxLiteral..MaxLiteral
MaxLiteral == 150

\* UPDATE_RETRIES of vacuum.py
AltUPDATE_RETRIES == 3 + 1

UPDATE_RETRIES == 3

(***************************************************************************)
(* State of one entity (RoboVacEntity) and of its transport (RoboVac)      *)
(***************************************************************************)
VARIABLES
    family,             \* which snapshots the device of this run reports
    model_code,         \* _attr_model_code: the configured model string, by character
    ip_address,         \* _attr_ip_address
    vacuum,             \* self.vacuum is not None
    removed,            \* async_will_remove_from_hass has run
    update_failures,    \* self.update_failures
    dps,                \* self.vacuum._dps: the snapshot the transport holds
    tuyastatus,         \* self.tuyastatus (a dict with no keys at all: None)
    battery_level,      \* _attr_battery_level
    tuya_state,         \* _attr_tuya_state
    error_code,         \* _attr_error_code
    mode,               \* _attr_mode
    fan_speed,          \* _attr_fan_speed
    cleaning_area,      \* _attr_cleaning_area
    cleaning_time,      \* _attr_cleaning_time
    auto_return,        \* _attr_auto_return
    do_not_disturb,     \* _attr_do_not_disturb
    boost_iq,           \* _attr_boost_iq
    consumables,        \* _attr_consumables
    supported_features, \* _attr_supported_features
    robovac_supported,  \* _attr_robovac_supported
    last,               \* the last operation: its name, the transport/host calls it
                        \* made in order, whether it raised to its caller
    tr,                 \* the last direct call of a translator function
    decode_warnings,    \* "Failed to decode consumable data" warnings the last
                        \* recomputation of the derived state logged
    poll_pc,            \* position of async_update: "idle", or "awaiting" while it
                        \* is suspended in `await self.vacuum.async_get()`
    focus,              \* which entity of the host the variables above describe
    other               \* the attributes of the host's second entity, if it has one

config == <<family, model_code, ip_address, vacuum, supported_features, robovac_supported>>

derived == <<battery_level, tuya_state, error_code, mode, fan_speed, cleaning_area,
             cleaning_time, auto_return, do_not_disturb, boost_iq, consumables>>

vars == <<family, model_code, ip_address, vacuum, removed, update_failures, dps,
          tuyastatus, battery_level, tuya_state, error_code, mode, fan_speed,
          cleaning_area, cleaning_time, auto_return, do_not_disturb, boost_iq,
          consumables, supported_features, robovac_supported, last, tr,
          decode_warnings, poll_pc, focus, other>>

\* The second entity of the host and which of the two is acted on
peer == <<focus, other>>

RECURSIVE Join(_)
Join(chars) == IF chars = <<>> THEN "" ELSE Head(chars) \o Join(Tail(chars))

\* model_code[0:5]
ModelCodePrefix(chars) ==
    Join(SubSeq(chars, 1, IF Len(chars) < 5 THEN Len(chars) ELSE 5))

\* The model code the RoboVac is constructed with
mcode == ModelCodePrefix(model_code)

\* The configured model strings of the runs
ConfigModels ==
    { <<"T", "2", "0", "8", "0">>, <<"T", "2", "1", "9", "3">>,
      <<"T", "2", "2", "7", "6">>, <<"T", "2", "2", "7", "8">>,
      <<"T", "2", "3", "2", "0", "A">>,
      <<"T", "9", "9", "9", "9">>, <<"T", "2", "0", "8">>, <<>> }

IntLiterals == [i \in (0 - MaxLiteral)..MaxLiteral |-> IntToStr(i)]

\* int(v) does not raise
IntOk(v) ==
    \/ IsNum(v)
    \/ v.k = "str" /\ \E i \in DOMAIN IntLiterals : IntLiterals[i] = v.s

\* int(v)
IntVal(v) ==
    IF IsNum(v) THEN v.n ELSE CHOOSE i \in DOMAIN IntLiterals : IntLiterals[i] = v.s

AltMin2(a, b) == b

Min2(a, b) == IF a < b THEN a ELSE b

Max2(a, b) == IF a > b THEN a ELSE b

Code(name) == get_dps_code(vacuum, mcode, name)

(***************************************************************************)
(* update_entity_values and the _update_* methods: each attribute as a     *)
(* function of the snapshot t and of the attribute's previous value        *)
(***************************************************************************)
\* _update_battery_level
AltNewBatteryLevel(t) ==
    LET b == Get(t, Code("BATTERY_LEVEL"))
    IN  IF b # None
        THEN IF IsNum(b) THEN Max2(0, Min2(100, IntVal(b))) ELSE 0
        ELSE 0

NewBatteryLevel(t) ==
    LET b == Get(t, Code("BATTERY_LEVEL"))
    IN  IF b # None
        THEN IF IntOk(b) THEN Max2(0, Min2(100, IntVal(b))) ELSE 0
        ELSE 0

\* _update_state_and_error: the state
NewTuyaState(t, old) ==
    LET v == Get(t, Code("STATUS"))
    IN  IF v # None /\ vacuum
        THEN getRoboVacHumanReadableValue(mcode, "STATUS", v)
        ELSE I(0)

\* _update_state_and_error: the error code
NewErrorCode(t) ==
    LET v == Get(t, Code("ERROR_CODE"))
    IN  IF v # None /\ vacuum
        THEN getRoboVacHumanReadableValue(mcode, "ERROR", v)
        ELSE I(0)

\* _update_mode_and_fan_speed: the mode
NewMode(t) ==
    LET v == Get(t, Code("MODE"))
    IN  IF v # None /\ vacuum
        THEN getRoboVacHumanReadableValue(mcode, "MODE", v)
        ELSE S("")

\* _update_mode_and_fan_speed: the fan speed and its display form
NewFanSpeed(t) ==
    LET v == Get(t, Code("FAN_SPEED"))
        f == IF v # None THEN v ELSE S("")
    IN  IF f = S("No_suction") THEN S("No Suction")
        ELSE IF f = S("Boost_IQ") THEN S("Boost IQ")
        ELSE IF f = S("Quiet") THEN S("Pure")
        ELSE f

\* _update_cleaning_stats: area and time are overwritten only when present
NewCleaningArea(t, old) ==
    LET v == Get(t, Code("CLEANING_AREA"))
    IN  IF v # None THEN S(PyStr(v)) ELSE old

NewCleaningTime(t, old) ==
    LET v == Get(t, Code("CLEANING_TIME"))
    IN  IF v # None THEN S(PyStr(v)) ELSE old

\* _update_cleaning_stats: auto_return, do_not_disturb and boost_iq are
\* assigned inside the `if cleaning_time is not None` block
NewFlag(t, name, old) ==
    LET v == Get(t, Code(name))
    IN  IF Get(t, Code("CLEANING_TIME")) # None
        THEN IF v # None THEN S(PyStr(v)) ELSE None
        ELSE old

\* ast.literal_eval(base64.b64decode(data).decode("ascii")) for the payloads
\* the device of the runs reports: "dur" when the literal is a dict holding
\* consumable.duration, "nodur" when it is a dict without it, "fail" when
\* any step raises
ConsumablePayloads ==
    ("eydjb25zdW1hYmxlJzogeydkdXJhdGlvbic6IDQyfX0=" :> [r |-> "dur", duration |-> 42]) @@
    ("eydjb25zdW1hYmxlJzogeydkdXJhdGlvbic6IDd9fQ==" :> [r |-> "dur", duration |-> 7]) @@
    ("eydjb25zdW1hYmxlJzoge319" :> [r |-> "nodur", duration |-> 0]) @@
    ("eydvdGhlcic6IDF9" :> [r |-> "nodur", duration |-> 0]) @@
    ("bm90IGEgbGl0ZXJhbCAo" :> [r |-> "fail", duration |-> 0]) @@
    ("abc" :> [r |-> "fail", duration |-> 0]) @@
    ("//4=" :> [r |-> "fail", duration |-> 0]) @@
    ("NDI=" :> [r |-> "fail", duration |-> 0])

DecodeConsumable(data) ==
    IF data \in DOMAIN ConsumablePayloads THEN ConsumablePayloads[data]
    ELSE [r |-> "fail", duration |-> 0]

\* The loop body of the consumables block for one CONSUMABLE_CODE
AltConsumableStep(t, code, cur) ==
    LET d == Get(t, code)
    IN  IF d # None /\ d.k = "str"
        THEN IF DecodeConsumable(d.s).r = "dur" THEN I(DecodeConsumable(d.s).duration)
             ELSE None
        ELSE cur

ConsumableStep(t, code, cur) ==
    LET d == Get(t, code)
    IN  IF d # None /\ d.k = "str" /\ DecodeConsumable(d.s).r = "dur"
        THEN I(DecodeConsumable(d.s).duration)
        ELSE cur

RECURSIVE ConsumableLoop(_, _, _)
ConsumableLoop(t, codes, cur) ==
    IF codes = <<>> THEN cur
    ELSE ConsumableLoop(t, Tail(codes), ConsumableStep(t, Head(codes), cur))

\* _update_cleaning_stats: the consumables block
NewConsumables(t, old) ==
    IF "CONSUMABLES" \in robovac_supported
    THEN ConsumableLoop(t, get_consumables_codes(vacuum, mcode), old)
    ELSE old

\* The except branch of the loop body: one warning for a string that fails
\* base64 decoding, ASCII decoding, literal parsing or the key tests
RECURSIVE ConsumableWarningsLoop(_, _)
ConsumableWarningsLoop(t, codes) ==
    IF codes = <<>> THEN 0
    ELSE LET d == Get(t, Head(codes))
         IN  (IF d # None /\ d.k = "str" /\ DecodeConsumable(d.s).r = "fail"
              THEN 1 ELSE 0) + ConsumableWarningsLoop(t, Tail(codes))

ConsumableWarnings(t) ==
    IF "CONSUMABLES" \in robovac_supported
    THEN ConsumableWarningsLoop(t, get_consumables_codes(vacuum, mcode))
    ELSE 0

\* update_entity_values() once the transport holds t: tuyastatus is rebound,
\* and nothing else happens when the vacuum is missing or t is empty
update_entity_values(t) ==
    IF ~vacuum THEN UNCHANGED <<tuyastatus, derived, decode_warnings>>
    ELSE /\ tuyastatus' = t
         /\ IF IsEmptyDict(t) THEN UNCHANGED <<derived, decode_warnings>>
            ELSE /\ battery_level' = NewBatteryLevel(t)
                 /\ tuya_state' = NewTuyaState(t, tuya_state)
                 /\ error_code' = NewErrorCode(t)
                 /\ mode' = NewMode(t)
                 /\ fan_speed' = NewFanSpeed(t)
                 /\ cleaning_area' = NewCleaningArea(t, cleaning_area)
                 /\ cleaning_time' = NewCleaningTime(t, cleaning_time)
                 /\ auto_return' = NewFlag(t, "AUTO_RETURN", auto_return)
                 /\ do_not_disturb' = NewFlag(t, "DO_NOT_DISTURB", do_not_disturb)
                 /\ boost_iq' = NewFlag(t, "BOOST_IQ", boost_iq)
                 /\ consumables' = NewConsumables(t, consumables)
                 /\ decode_warnings' = ConsumableWarnings(t)

(***************************************************************************)
(* The device: the snapshots the transport of a run can come to hold       *)
(***************************************************************************)
MkDps(mc, byCode) == [c \in DpKeys(mc) |-> IF c \in DOMAIN byCode THEN byCode[c] ELSE None]

F(mc, name, v) == get_dps_code(TRUE, mc, name) :> v

\* Raw status values: for T2080 encoded values of its table, a value of the
\* table whose label the activity map lacks, and unlisted raw strings; for
\* the models without a STATUS table the labels of the legacy heuristic
StatusRaw(mc) ==
    IF mc = "T2080"
    THEN {None, S("BhAHQgBSAA=="), S("CgoAEAkaAggBMgA="), S("DAoCCAEQCRoCCAEyAA=="),
          S("XYZ"), S("Recharge"), I(0)}
    ELSE IF mc = "T2193"
    THEN {None, S("Charging"), S("completed"), S("Recharge"), S("Sleeping"),
          S("standby"), S("Paused"), S("Running"), I(0), I(5)}
    ELSE {None, S("Charging"), S("Running")}

ErrorRaw == {None, I(0), S("no_error"), S("E001"), S(""), S("0")}

ModeRaw(mc) == IF mc \in {"T2080", "T2278"} THEN S("BBoCCAE=") ELSE S("auto")

Aux(mc, a) ==
    CASE a = 0 -> <<>>
      [] a = 1 -> F(mc, "BATTERY_LEVEL", S("85"))
      [] a = 2 -> F(mc, "BATTERY_LEVEL", I(100)) @@ F(mc, "MODE", ModeRaw(mc))
                    @@ F(mc, "FAN_SPEED", S("Quiet"))

\* A status of a working device and of a docked one
WorkingStatus(mc) == IF mc = "T2080" THEN S("CgoAEAkaAggBMgA=") ELSE S("Running")

DockedStatus(mc) == IF mc = "T2080" THEN S("BBADGgA=") ELSE S("Charging")

\* Family "core": a working device without an error DP, a docked one that
\* reports error E001
CoreSnapshots(mc) ==
    { MkDps(mc, F(mc, "STATUS", WorkingStatus(mc)) @@ Aux(mc, 1)),
      MkDps(mc, F(mc, "STATUS", DockedStatus(mc)) @@ F(mc, "ERROR_CODE", S("E001"))
                  @@ Aux(mc, 2)) }

\* The snapshot {"153": "BhAHQgBSAA==", "163": "85", "106": 0} of a T2080
E2ESnapshot ==
    MkDps("T2080", ("153" :> S("BhAHQgBSAA==")) @@ ("163" :> S("85")) @@ ("106" :> I(0)))

\* Family "activity": every status with and without an error, every error
\* value with a working and a docked status, and for T2080 the snapshot above
ActivitySnapshots(mc) ==
    { MkDps(mc, F(mc, "STATUS", st) @@ F(mc, "ERROR_CODE", er)) :
        st \in StatusRaw(mc), er \in {None, S("E001")} }
    \cup
    { MkDps(mc, F(mc, "STATUS", st) @@ F(mc, "ERROR_CODE", er)) :
        st \in {WorkingStatus(mc), DockedStatus(mc)}, er \in ErrorRaw }
    \cup
    (IF mc = "T2080" THEN {E2ESnapshot} ELSE {})

\* Raw values of a consumables DP: the base64 of {'consumable': {'duration': 42}}
\* and of the same with 7, of {'consumable': {}} and {'other': 1}, of text
\* that is no literal, a string that is no base64, bytes that are no ASCII,
\* the literal 42, and a value that is no string
ConsumableRaw ==
    {None, S("eydjb25zdW1hYmxlJzogeydkdXJhdGlvbic6IDQyfX0="),
     S("eydjb25zdW1hYmxlJzogeydkdXJhdGlvbic6IDd9fQ=="), S("eydjb25zdW1hYmxlJzoge319"),
     S("eydvdGhlcic6IDF9"), S("bm90IGEgbGl0ZXJhbCAo"), S("abc"), S("//4="), S("NDI="),
     I(5)}

\* Family "stats": a working device that reports each consumables value under
\* the first consumables code, with and without a second consumables DP, one
\* that reports its cleaning statistics in full and in part, and one that
\* reports flags without a cleaning time
StatsSnapshots(mc) ==
    { MkDps(mc, F(mc, "STATUS", WorkingStatus(mc))
                  @@ (get_consumables_codes(TRUE, mc)[1] :> a)
                  @@ (get_consumables_codes(TRUE, mc)[Len(get_consumables_codes(TRUE, mc))] :> b)) :
        a \in ConsumableRaw,
        b \in {None, S("eydjb25zdW1hYmxlJzogeydkdXJhdGlvbic6IDd9fQ=="), S("abc")} }
    \cup
    { MkDps(mc, F(mc, "STATUS", WorkingStatus(mc)) @@ F(mc, "CLEANING_AREA", I(12))
                  @@ F(mc, "CLEANING_TIME", I(300)) @@ F(mc, "AUTO_RETURN", B(TRUE))),
      MkDps(mc, F(mc, "STATUS", DockedStatus(mc)) @@ F(mc, "CLEANING_AREA", I(12))),
      MkDps(mc, F(mc, "STATUS", DockedStatus(mc)) @@ F(mc, "AUTO_RETURN", B(FALSE))
                  @@ F(mc, "DO_NOT_DISTURB", B(TRUE)) @@ F(mc, "BOOST_IQ", S("true"))) }

\* Raw values of the battery DP: in range as int and as text, out of range,
\* text that is no integer, a bool, and no value
BatteryRaw ==
    {None, I(85), S("85"), I(0), I(100), I(101), I(150), I(0 - 5), S("150"), S("-20"),
     S("abc"), S(""), B(TRUE)}

\* Family "battery": a working device that reports each battery value
BatterySnapshots(mc) ==
    { MkDps(mc, F(mc, "STATUS", WorkingStatus(mc)) @@ F(mc, "BATTERY_LEVEL", b)) :
        b \in BatteryRaw }

\* Raw values of a flag DP
FlagRaw == {None, B(TRUE), B(FALSE), S("true"), S("TRUE")}

\* Family "toggle": a working device that reports a cleaning time and its
\* three flags
ToggleSnapshots(mc) ==
    { MkDps(mc, F(mc, "STATUS", WorkingStatus(mc)) @@ F(mc, "CLEANING_TIME", I(300))
                  @@ F(mc, "AUTO_RETURN", a) @@ F(mc, "DO_NOT_DISTURB", d)
                  @@ F(mc, "BOOST_IQ", b)) :
        a \in FlagRaw, d \in {None, B(TRUE)}, b \in {B(FALSE), S("true")} }

\* Family "pair": a docked device that reports error E001
PairSnapshots(mc) ==
    { MkDps(mc, F(mc, "STATUS", DockedStatus(mc)) @@ F(mc, "ERROR_CODE", S("E001"))
                  @@ Aux(mc, 2)) }

Families == {"core", "activity", "stats", "pair", "battery", "toggle"}

FamilySnapshots(fam, mc) ==
    IF fam = "core" THEN CoreSnapshots(mc)
    ELSE IF fam = "activity" THEN ActivitySnapshots(mc)
    ELSE IF fam = "stats" THEN StatsSnapshots(mc)
    ELSE IF fam = "pair" THEN PairSnapshots(mc)
    ELSE IF fam = "battery" THEN BatterySnapshots(mc)
    ELSE IF fam = "toggle" THEN ToggleSnapshots(mc)
    ELSE {}

\* The snapshots of every family and registered model, computed once
SnapshotTable == [fam \in Families |-> [mc \in ROBOVAC_MODELS |-> FamilySnapshots(fam, mc)]]

Snapshots(fam, mc) ==
    IF mc \in ROBOVAC_MODELS /\ fam \in Families THEN SnapshotTable[fam][mc] ELSE {}

(***************************************************************************)
(* Construction: RoboVacEntity.__init__                                    *)
(***************************************************************************)
NoCalls == <<>>

\* An operation, the arguments the host passed, the transport/host calls it
\* made, and whether it raised
OpArgs(name, args, calls, raised) ==
    [op |-> name, args |-> args, calls |-> calls, raised |-> raised]

Op(name, calls, raised) == OpArgs(name, <<>>, calls, raised)

GetCall(ok) == [fn |-> "get", key |-> "", val |-> None, ok |-> ok]

SetCall(key, val, ok) == [fn |-> "set", key |-> key, val |-> val, ok |-> ok]

DisableCall == [fn |-> "disable", key |-> "", val |-> None, ok |-> TRUE]

WriteHaStateCall == [fn |-> "async_write_ha_state", key |-> "", val |-> None, ok |-> TRUE]

NoTr == [fn |-> "none", model |-> "", cmd |-> "", arg |-> None, out |-> None, warn |-> 0]

\* RoboVac.__init__ raises ModelNotSupportedException
ModelSupported(mc) == mc \in ROBOVAC_MODELS

\* The attributes of an entity right after RoboVacEntity.__init__
NewEntity(fam, cfgModel, ip) ==
    [ family |-> fam,
      model_code |-> cfgModel,
      ip_address |-> ip,
      vacuum |-> ModelSupported(ModelCodePrefix(cfgModel)),
      removed |-> FALSE,
      update_failures |-> 0,
      dps |-> IF ModelCodePrefix(cfgModel) \in ROBOVAC_MODELS
               THEN EmptyDps(ModelCodePrefix(cfgModel)) ELSE NoMap,
      tuyastatus |-> NoMap,
      battery_level |-> 0,
      tuya_state |-> None,
      error_code |-> IF ModelSupported(ModelCodePrefix(cfgModel))
                      THEN None ELSE S("UNSUPPORTED_MODEL"),
      mode |-> None,
      fan_speed |-> None,
      cleaning_area |-> None,
      cleaning_time |-> None,
      auto_return |-> None,
      do_not_disturb |-> None,
      boost_iq |-> None,
      consumables |-> None,
      supported_features |-> IF ModelSupported(ModelCodePrefix(cfgModel))
                              THEN getHomeAssistantFeatures(ModelCodePrefix(cfgModel))
                              ELSE {},
      robovac_supported |-> IF ModelSupported(ModelCodePrefix(cfgModel))
                             THEN getRoboVacFeatures(ModelCodePrefix(cfgModel))
                             ELSE {},
      decode_warnings |-> 0,
      poll_pc |-> "idle" ]

\* The attributes of the entity acted on, as a record
DeviceState ==
    [ family |-> family,
      model_code |-> model_code,
      ip_address |-> ip_address,
      vacuum |-> vacuum,
      removed |-> removed,
      update_failures |-> update_failures,
      dps |-> dps,
      tuyastatus |-> tuyastatus,
      battery_level |-> battery_level,
      tuya_state |-> tuya_state,
      error_code |-> error_code,
      mode |-> mode,
      fan_speed |-> fan_speed,
      cleaning_area |-> cleaning_area,
      cleaning_time |-> cleaning_time,
      auto_return |-> auto_return,
      do_not_disturb |-> do_not_disturb,
      boost_iq |-> boost_iq,
      consumables |-> consumables,
      supported_features |-> supported_features,
      robovac_supported |-> robovac_supported,
      decode_warnings |-> decode_warnings,
      poll_pc |-> poll_pc ]

\* The host turns to the entity whose attributes are r
FocusOn(r) ==
    /\ family' = r.family
    /\ model_code' = r.model_code
    /\ ip_address' = r.ip_address
    /\ vacuum' = r.vacuum
    /\ removed' = r.removed
    /\ update_failures' = r.update_failures
    /\ dps' = r.dps
    /\ tuyastatus' = r.tuyastatus
    /\ battery_level' = r.battery_level
    /\ tuya_state' = r.tuya_state
    /\ error_code' = r.error_code
    /\ mode' = r.mode
    /\ fan_speed' = r.fan_speed
    /\ cleaning_area' = r.cleaning_area
    /\ cleaning_time' = r.cleaning_time
    /\ auto_return' = r.auto_return
    /\ do_not_disturb' = r.do_not_disturb
    /\ boost_iq' = r.boost_iq
    /\ consumables' = r.consumables
    /\ supported_features' = r.supported_features
    /\ robovac_supported' = r.robovac_supported
    /\ decode_warnings' = r.decode_warnings
    /\ poll_pc' = r.poll_pc

NoDevice == [model_code |-> <<>>]

InitEntity(fam, cfgModel, ip) ==
    /\ family = NewEntity(fam, cfgModel, ip).family
    /\ model_code = NewEntity(fam, cfgModel, ip).model_code
    /\ ip_address = NewEntity(fam, cfgModel, ip).ip_address
    /\ vacuum = NewEntity(fam, cfgModel, ip).vacuum
    /\ removed = NewEntity(fam, cfgModel, ip).removed
    /\ update_failures = NewEntity(fam, cfgModel, ip).update_failures
    /\ dps = NewEntity(fam, cfgModel, ip).dps
    /\ tuyastatus = NewEntity(fam, cfgModel, ip).tuyastatus
    /\ battery_level = NewEntity(fam, cfgModel, ip).battery_level
    /\ tuya_state = NewEntity(fam, cfgModel, ip).tuya_state
    /\ error_code = NewEntity(fam, cfgModel, ip).error_code
    /\ mode = NewEntity(fam, cfgModel, ip).mode
    /\ fan_speed = NewEntity(fam, cfgModel, ip).fan_speed
    /\ cleaning_area = NewEntity(fam, cfgModel, ip).cleaning_area
    /\ cleaning_time = NewEntity(fam, cfgModel, ip).cleaning_time
    /\ auto_return = NewEntity(fam, cfgModel, ip).auto_return
    /\ do_not_disturb = NewEntity(fam, cfgModel, ip).do_not_disturb
    /\ boost_iq = NewEntity(fam, cfgModel, ip).boost_iq
    /\ consumables = NewEntity(fam, cfgModel, ip).consumables
    /\ supported_features = NewEntity(fam, cfgModel, ip).supported_features
    /\ robovac_supported = NewEntity(fam, cfgModel, ip).robovac_supported
    /\ decode_warnings = NewEntity(fam, cfgModel, ip).decode_warnings
    /\ poll_pc = NewEntity(fam, cfgModel, ip).poll_pc
    /\ last = Op("__init__", NoCalls, FALSE)

\* A host with one entity
SingleDevice ==
    /\ focus = "A"
    /\ other = NoDevice

IpAddresses == {S("192.168.1.100"), S("")}

Init ==
    \E cfgModel \in ConfigModels, ip \in IpAddresses :
        /\ InitEntity("core", cfgModel, ip)
        /\ SingleDevice
        /\ tr = NoTr

(***************************************************************************)
(* Polling: RoboVacEntity.async_update                                     *)
(***************************************************************************)
\* The early returns: unsupported model, no IP address, no vacuum object
AltUnsupportedSkip(e) == FALSE

UnsupportedSkip(e) == e = S("UNSUPPORTED_MODEL")

AltAsyncUpdateSkipped ==
    /\ ~removed
    /\ \/ UnsupportedSkip(error_code)
       \/ ~PyTruthy(ip_address)
       \/ ~vacuum
       \/ error_code = S("CONNECTION_FAILED")
    /\ error_code' = IF UnsupportedSkip(error_code) THEN error_code
                     ELSE IF ~PyTruthy(ip_address) THEN S("IP_ADDRESS")
                     ELSE IF ~vacuum THEN S("INITIALIZATION_FAILED")
                     ELSE error_code
    /\ last' = Op("async_update", NoCalls, FALSE)
    /\ UNCHANGED <<peer, config, removed, update_failures, dps, tuyastatus, battery_level,
                   tuya_state, mode, fan_speed, cleaning_area, cleaning_time,
                   auto_return, do_not_disturb, boost_iq, consumables, tr,
                   decode_warnings, poll_pc>>

AsyncUpdateSkipped ==
    /\ ~removed
    /\ \/ UnsupportedSkip(error_code)
       \/ ~PyTruthy(ip_address)
       \/ ~vacuum
    /\ error_code' = IF UnsupportedSkip(error_code) THEN error_code
                     ELSE IF ~PyTruthy(ip_address) THEN S("IP_ADDRESS")
                     ELSE S("INITIALIZATION_FAILED")
    /\ last' = Op("async_update", NoCalls, FALSE)
    /\ UNCHANGED <<peer, config, removed, update_failures, dps, tuyastatus, battery_level,
                   tuya_state, mode, fan_speed, cleaning_area, cleaning_time,
                   auto_return, do_not_disturb, boost_iq, consumables, tr,
                   decode_warnings, poll_pc>>

PollReaches ==
    /\ ~removed
    /\ ~UnsupportedSkip(error_code)
    /\ PyTruthy(ip_address)
    /\ vacuum

\* async_get() returns; the transport then holds snapshot t
AsyncUpdateOk(t) ==
    /\ PollReaches
    /\ dps' = t
    /\ update_failures' = 0
    /\ update_entity_values(t)
    /\ last' = Op("async_update", <<GetCall(TRUE)>>, FALSE)
    /\ poll_pc' = "idle"
    /\ UNCHANGED <<peer, config, removed, tr>>

\* async_get() raises TuyaException
\* The except branch of async_update: the error value after the failure that
\* brought the counter to n
AltErrorAfterFailure(n) == S("CONNECTION_FAILED")

ErrorAfterFailure(n) ==
    IF n >= UPDATE_RETRIES THEN S("CONNECTION_FAILED") ELSE error_code

AltAsyncUpdateFailed ==
    /\ PollReaches
    /\ update_failures < MaxFailures
    /\ update_failures' = update_failures + 1
    /\ error_code' = ErrorAfterFailure(update_failures + 1)
    /\ last' = Op("async_update", <<GetCall(FALSE)>>, FALSE)
    /\ other' = IF other = NoDevice THEN other
                ELSE [other EXCEPT !.update_failures = update_failures + 1]
    /\ UNCHANGED <<focus, config, removed, dps, tuyastatus, battery_level, tuya_state,
                   mode, fan_speed, cleaning_area, cleaning_time, auto_return,
                   do_not_disturb, boost_iq, consumables, tr, decode_warnings>>
    /\ poll_pc' = "idle"

AsyncUpdateFailed ==
    /\ PollReaches
    /\ update_failures < MaxFailures
    /\ update_failures' = update_failures + 1
    /\ error_code' = ErrorAfterFailure(update_failures + 1)
    /\ last' = Op("async_update", <<GetCall(FALSE)>>, FALSE)
    /\ UNCHANGED <<peer, config, removed, dps, tuyastatus, battery_level, tuya_state, mode,
                   fan_speed, cleaning_area, cleaning_time, auto_return,
                   do_not_disturb, boost_iq, consumables, tr, decode_warnings>>
    /\ poll_pc' = "idle"

(***************************************************************************)
(* Push: RoboVacEntity.pushed_update_handler, called by the transport once *)
(* it holds the DPs the device reported                                    *)
(***************************************************************************)
AltPushedUpdate(t) ==
    /\ ~removed
    /\ vacuum
    /\ PyTruthy(ip_address)
    /\ dps' = t
    /\ UNCHANGED update_failures
    /\ update_entity_values(dps)
    /\ last' = Op("pushed_update_handler", <<WriteHaStateCall>>, FALSE)
    /\ UNCHANGED <<peer, config, removed, tr, poll_pc>>

PushedUpdate(t) ==
    /\ ~removed
    /\ vacuum
    /\ PyTruthy(ip_address)
    /\ dps' = t
    /\ UNCHANGED update_failures
    /\ update_entity_values(t)
    /\ last' = Op("pushed_update_handler", <<WriteHaStateCall>>, FALSE)
    /\ UNCHANGED <<peer, config, removed, tr, poll_pc>>

(***************************************************************************)
(* Command dispatch surface.  async_set() returns (ok) or raises           *)
(* TuyaException, which no command catches.                                *)
(***************************************************************************)
Frame == <<peer, config, removed, update_failures, dps, tuyastatus, battery_level,
           tuya_state, error_code, fan_speed, cleaning_area, cleaning_time,
           auto_return, do_not_disturb, boost_iq, consumables, tr, decode_warnings,
           poll_pc>>

\* A command that sends {key: val} when the vacuum exists, and only logs otherwise
AltSend(name, key, val) ==
    /\ ~removed
    /\ IF vacuum
       THEN \E ok \in BOOLEAN :
               last' = Op(name, IF ok THEN <<SetCall(key, val, TRUE)>>
                                ELSE <<SetCall(key, val, FALSE), SetCall(key, val, TRUE)>>,
                          FALSE)
       ELSE last' = Op(name, NoCalls, FALSE)
    /\ UNCHANGED Frame

Send(name, key, val) ==
    /\ ~removed
    /\ IF vacuum
       THEN \E ok \in BOOLEAN : last' = Op(name, <<SetCall(key, val, ok)>>, ~ok)
       ELSE last' = Op(name, NoCalls, FALSE)
    /\ UNCHANGED Frame

\* The same for a command that takes arguments
SendArgs(name, args, key, val) ==
    /\ ~removed
    /\ IF vacuum
       THEN \E ok \in BOOLEAN :
               last' = OpArgs(name, args, <<SetCall(key, val, ok)>>, ~ok)
       ELSE last' = OpArgs(name, args, NoCalls, FALSE)
    /\ UNCHANGED Frame

\* async_locate
async_locate ==
    /\ Send("async_locate", Code("LOCATE"),
            IF PyTruthy(Get(tuyastatus, Code("LOCATE"))) THEN B(FALSE) ELSE B(TRUE))
    /\ UNCHANGED mode

\* async_return_to_base
async_return_to_base ==
    /\ Send("async_return_to_base", Code("RETURN_HOME"),
            getRoboVacCommandValue(mcode, "RETURN_HOME", S("return")))
    /\ UNCHANGED mode

\* async_start: _attr_mode is set before the vacuum is looked at
AltAsyncStart ==
    /\ Send("async_start", Code("START_PAUSE"),
            getRoboVacCommandValue(mcode, "START_PAUSE", S("start")))
    /\ mode' = S("auto")

async_start ==
    /\ Send("async_start", Code("MODE"), getRoboVacCommandValue(mcode, "MODE", S("auto")))
    /\ mode' = S("auto")

\* async_pause
async_pause ==
    /\ Send("async_pause", Code("START_PAUSE"),
            getRoboVacCommandValue(mcode, "START_PAUSE", S("pause")))
    /\ UNCHANGED mode

\* async_stop: async_return_to_base under another name
async_stop ==
    /\ Send("async_stop", Code("RETURN_HOME"),
            getRoboVacCommandValue(mcode, "RETURN_HOME", S("return")))
    /\ UNCHANGED mode

\* async_clean_spot
async_clean_spot ==
    /\ Send("async_clean_spot", Code("MODE"),
            getRoboVacCommandValue(mcode, "MODE", S("spot")))
    /\ UNCHANGED mode

\* fan_speed.lower().replace(" ", "_") on the labels the host can select
NormalizeFanSpeed(label) ==
    CASE label = "Quiet"    -> "quiet"
      [] label = "Standard" -> "standard"
      [] label = "Turbo"    -> "turbo"
      [] label = "Max"      -> "max"
      [] label = "Mid"      -> "mid"
      [] label = "Min"      -> "min"
      [] label = "Boost IQ" -> "boost_iq"
      [] label = "No Suction" -> "no_suction"
      [] label = "AgkBCgIKAQoDCgEKBAoB" -> "agkbcgikaqodcgekbaob"
      [] OTHER -> label

\* RoboVac.getFanSpeeds: the values of the FAN_SPEED dict
getFanSpeeds(mc) ==
    IF HasCommandValues(mc, "FAN_SPEED")
    THEN {CommandValues(mc, "FAN_SPEED")[h] : h \in DOMAIN CommandValues(mc, "FAN_SPEED")}
    ELSE {}

\* _attr_fan_speed_list
fan_speed_list == IF vacuum THEN getFanSpeeds(mcode) ELSE {}

\* The labels a host call of set_fan_speed carries
FanSpeedInputs == {PyStr(v) : v \in fan_speed_list} \cup {"Boost IQ"}

\* async_set_fan_speed
async_set_fan_speed(label) ==
    /\ SendArgs("async_set_fan_speed", <<label>>, Code("FAN_SPEED"),
            getRoboVacCommandValue(mcode, "FAN_SPEED", S(NormalizeFanSpeed(label))))
    /\ UNCHANGED mode

\* str.lower() on the values a flag attribute can hold
Lower(x) ==
    CASE x = "True"  -> "true"
      [] x = "TRUE"  -> "true"
      [] x = "False" -> "false"
      [] x = "None"  -> "none"
      [] OTHER       -> x

\* _is_value_true
AltIsValueTrue(v) ==
    \/ v = B(TRUE)
    \/ v.k = "str" /\ v.s = "True"

is_value_true(v) ==
    \/ v = B(TRUE)
    \/ v.k = "str" /\ (v.s = "True" \/ Lower(v.s) = "true")

mode_commands ==
    ("edgeClean" :> "edge") @@ ("smallRoomClean" :> "small_room") @@ ("autoClean" :> "auto")

SendCommandNames ==
    {"edgeClean", "smallRoomClean", "autoClean", "autoReturn", "doNotDisturb",
     "boostIQ", "roomClean", "unknownCommand"}

\* params of send_command: None, {}, {"roomIds": [2, 3], "count": 2} or a list
SendCommandParams == {"None", "{}", "rooms", "list"}

\* base64(json.dumps({"method": "selectRoomsClean", "data": {"roomIds": ..,
\* "cleanTimes": ..}, "timestamp": ..})) as a term over its roomIds and count
RoomCleanPayload(params) ==
    IF params = "rooms"
    THEN S("b64{method:selectRoomsClean,data:{roomIds:[2,3],cleanTimes:2},timestamp:now}")
    ELSE S("b64{method:selectRoomsClean,data:{roomIds:[1],cleanTimes:1},timestamp:now}")

\* async_send_command
async_send_command(command, params) ==
    /\ UNCHANGED mode
    /\ IF command \in DOMAIN mode_commands
       THEN SendArgs("async_send_command", <<command, params>>, Code("MODE"),
                 getRoboVacCommandValue(mcode, "MODE", S(mode_commands[command])))
       ELSE IF command = "autoReturn"
       THEN SendArgs("async_send_command", <<command, params>>, Code("AUTO_RETURN"),
                 B(~is_value_true(auto_return)))
       ELSE IF command = "doNotDisturb"
       THEN SendArgs("async_send_command", <<command, params>>, Code("DO_NOT_DISTURB"),
                 B(~is_value_true(do_not_disturb)))
       ELSE IF command = "boostIQ"
       THEN SendArgs("async_send_command", <<command, params>>, Code("BOOST_IQ"),
                 B(~is_value_true(boost_iq)))
       ELSE IF command = "roomClean" /\ params \in {"{}", "rooms"}
       THEN SendArgs("async_send_command", <<command, params>>, TuyaCodes.ROOM_CLEAN,
                 RoomCleanPayload(params))
       ELSE /\ ~removed
            /\ last' = OpArgs("async_send_command", <<command, params>>, NoCalls, FALSE)
            /\ UNCHANGED Frame

(***************************************************************************)
(* Removal: async_will_remove_from_hass                                    *)
(***************************************************************************)
AltAsyncWillRemoveFromHass ==
    /\ ~removed
    /\ removed' = TRUE
    /\ last' = Op("async_will_remove_from_hass", NoCalls, FALSE)
    /\ UNCHANGED <<peer, config, update_failures, dps, tuyastatus, derived, tr,
                   decode_warnings, poll_pc>>

async_will_remove_from_hass ==
    /\ ~removed
    /\ removed' = TRUE
    /\ last' = Op("async_will_remove_from_hass",
                  IF vacuum THEN <<DisableCall>> ELSE NoCalls, FALSE)
    /\ UNCHANGED <<peer, config, update_failures, dps, tuyastatus, derived, tr,
                   decode_warnings, poll_pc>>

Next ==
    \/ AsyncUpdateSkipped
    \/ \E t \in Snapshots(family, mcode) \cup {dps} : AsyncUpdateOk(t)
    \/ AsyncUpdateFailed
    \/ \E t \in Snapshots(family, mcode) : PushedUpdate(t)
    \/ async_locate
    \/ async_return_to_base
    \/ async_start
    \/ async_pause
    \/ async_stop
    \/ async_clean_spot
    \/ \E label \in FanSpeedInputs : async_set_fan_speed(label)
    \/ \E command \in SendCommandNames, params \in SendCommandParams :
          /\ command = "roomClean" \/ params = "None"
          /\ async_send_command(command, params)
    \/ async_will_remove_from_hass

Spec == Init /\ [][Next]_vars

(***************************************************************************)
(* The update controller alone, over the snapshots of family "activity"    *)
(***************************************************************************)
ActivityModels ==
    { <<"T", "2", "0", "8", "0">>, <<"T", "2", "1", "9", "3">>,
      <<"T", "2", "2", "7", "8">>, <<"T", "9", "9", "9", "9">> }

InitActivity ==
    \E cfgModel \in ActivityModels, ip \in IpAddresses :
        /\ InitEntity("activity", cfgModel, ip)
        /\ SingleDevice
        /\ tr = NoTr

NextActivity ==
    \/ AsyncUpdateSkipped
    \/ \E t \in Snapshots(family, mcode) \cup {dps} : AsyncUpdateOk(t)
    \/ AsyncUpdateFailed
    \/ \E t \in Snapshots(family, mcode) : PushedUpdate(t)
    \/ async_will_remove_from_hass

SpecActivity == InitActivity /\ [][NextActivity]_vars

(***************************************************************************)
(* The update controller alone, over the snapshots of family "stats"       *)
(***************************************************************************)
StatsModels ==
    { <<"T", "2", "0", "8", "0">>, <<"T", "2", "1", "9", "3">>,
      <<"T", "2", "2", "7", "8">>, <<"T", "9", "9", "9", "9">> }

InitStats ==
    \E cfgModel \in StatsModels, ip \in IpAddresses :
        /\ InitEntity("stats", cfgModel, ip)
        /\ SingleDevice
        /\ tr = NoTr

SpecStats == InitStats /\ [][NextActivity]_vars

(***************************************************************************)
(* The update controller alone, over the snapshots of family "battery"     *)
(***************************************************************************)
InitBattery ==
    \E cfgModel \in StatsModels, ip \in IpAddresses :
        /\ InitEntity("battery", cfgModel, ip)
        /\ SingleDevice
        /\ tr = NoTr

SpecBattery == InitBattery /\ [][NextActivity]_vars

(***************************************************************************)
(* send_command between polls, over the snapshots of family "toggle"       *)
(***************************************************************************)
InitToggle ==
    \E cfgModel \in StatsModels :
        /\ InitEntity("toggle", cfgModel, S("192.168.1.100"))
        /\ SingleDevice
        /\ tr = NoTr

NextToggle ==
    \/ AsyncUpdateSkipped
    \/ \E t \in Snapshots(family, mcode) : AsyncUpdateOk(t)
    \/ \E command \in SendCommandNames, params \in SendCommandParams :
          async_send_command(command, params)

SpecToggle == InitToggle /\ [][NextToggle]_vars

(***************************************************************************)
(* The transport bindings.  T2276 declares get_device_class(), which       *)
(* returns T2276TinyTuyaDevice; its async_get logs and re-raises whatever  *)
(* exception the tinytuya status call raised, none of them a TuyaException.*)
(***************************************************************************)
get_device_class(mc) == IF mc = "T2276" THEN "T2276TinyTuyaDevice" ELSE "TuyaDevice"

\* async_get() of T2276TinyTuyaDevice raises: async_update has no handler
\* for the exception, which leaves it before any assignment
AsyncUpdateRaised ==
    /\ PollReaches
    /\ get_device_class(mcode) = "T2276TinyTuyaDevice"
    /\ last' = Op("async_update", <<GetCall(FALSE)>>, TRUE)
    /\ poll_pc' = "idle"
    /\ UNCHANGED <<peer, config, removed, update_failures, dps, tuyastatus, derived, tr,
                   decode_warnings>>

BindingModels ==
    { <<"T", "2", "0", "8", "0">>, <<"T", "2", "1", "9", "3">>,
      <<"T", "2", "2", "7", "6">>, <<"T", "9", "9", "9", "9">> }

InitBinding ==
    \E cfgModel \in BindingModels, ip \in IpAddresses :
        /\ InitEntity("core", cfgModel, ip)
        /\ SingleDevice
        /\ tr = NoTr

NextBinding ==
    \/ AsyncUpdateSkipped
    \/ \E t \in Snapshots(family, mcode) \cup {dps} : AsyncUpdateOk(t)
    \/ AsyncUpdateFailed
    \/ AsyncUpdateRaised
    \/ \E t \in Snapshots(family, mcode) : PushedUpdate(t)

SpecBinding == InitBinding /\ [][NextBinding]_vars

(***************************************************************************)
(* A poll that suspends in async_get() while the transport's listening     *)
(* loop delivers pushes for the same device.  The event loop runs one      *)
(* callback at a time, and update_entity_values has no await in it.        *)
(***************************************************************************)
GetPending == [fn |-> "get", key |-> "pending", val |-> None, ok |-> TRUE]

\* async_update up to `await self.vacuum.async_get()`
PollBegin ==
    /\ PollReaches
    /\ poll_pc = "idle"
    /\ poll_pc' = "awaiting"
    /\ last' = Op("async_update", <<GetPending>>, FALSE)
    /\ UNCHANGED <<peer, config, removed, update_failures, dps, tuyastatus, derived, tr,
                   decode_warnings>>

\* async_get() returns to the suspended poll with snapshot t
PollReturnOk(t) ==
    /\ poll_pc = "awaiting"
    /\ AsyncUpdateOk(t)

\* async_get() raises into the suspended poll
PollReturnFailed ==
    /\ poll_pc = "awaiting"
    /\ AsyncUpdateFailed

NextConcurrent ==
    \/ AsyncUpdateSkipped
    \/ PollBegin
    \/ \E t \in Snapshots(family, mcode) \cup {dps} : PollReturnOk(t)
    \/ PollReturnFailed
    \/ \E t \in Snapshots(family, mcode) : PushedUpdate(t)

SpecConcurrent == InitStats /\ [][NextConcurrent]_vars

(***************************************************************************)
(* Two entities of one host (async_setup_entry creates one RoboVacEntity   *)
(* per configured vacuum).  The event loop runs the operations of both in  *)
(* any order, and a poll of one may be suspended while the other is acted  *)
(* on.                                                                     *)
(***************************************************************************)
PairModelsA == { <<"T", "2", "0", "8", "0">>, <<"T", "9", "9", "9", "9">> }

PairModelsB == { <<"T", "2", "0", "8", "0">>, <<"T", "2", "2", "7", "8">> }

InitPair ==
    \E cfgA \in PairModelsA, cfgB \in PairModelsB :
        /\ InitEntity("pair", cfgA, S("192.168.1.100"))
        /\ focus = "A"
        /\ other = NewEntity("pair", cfgB, S("192.168.1.100"))
        /\ tr = NoTr

\* The next operation the event loop runs belongs to the other entity
Switch ==
    /\ other # NoDevice
    /\ FocusOn(other)
    /\ other' = DeviceState
    /\ focus' = IF focus = "A" THEN "B" ELSE "A"
    /\ UNCHANGED <<last, tr>>

NextPair ==
    \/ Switch
    \/ AsyncUpdateSkipped
    \/ PollBegin
    \/ \E t \in Snapshots(family, mcode) \cup {dps} : PollReturnOk(t)
    \/ PollReturnFailed
    \/ \E t \in Snapshots(family, mcode) : PushedUpdate(t)
    \/ async_start
    \/ async_will_remove_from_hass

SpecPair == InitPair /\ [][NextPair]_vars

\* RoboVacEntity.activity on the current state
activity ==
    ActivityOf(vacuum /\ HasActivityMapping(mcode), getRoboVacActivityMapping(mcode),
               tuya_state, error_code)

\* RoboVacEntity.extra_state_attributes: the keys of the dict it returns
AltExtraStateAttributes ==
    {a \in {"error"} : error_code # None}
    \cup {a \in {"cleaning_area"} :
            "CLEANING_AREA" \in robovac_supported /\ PyTruthy(cleaning_area)}
    \cup {a \in {"cleaning_time"} :
            "CLEANING_TIME" \in robovac_supported /\ PyTruthy(cleaning_time)}
    \cup {a \in {"auto_return"} :
            "AUTO_RETURN" \in robovac_supported /\ PyTruthy(auto_return)}
    \cup {a \in {"do_not_disturb"} :
            "DO_NOT_DISTURB" \in robovac_supported /\ PyTruthy(do_not_disturb)}
    \cup {a \in {"boost_iq"} : "BOOST_IQ" \in robovac_supported /\ PyTruthy(boost_iq)}
    \cup {a \in {"consumables"} :
            "CONSUMABLES" \in robovac_supported /\ PyTruthy(consumables)}
    \cup {a \in {"mode"} : PyTruthy(mode)}

extra_state_attributes ==
    {a \in {"error"} : error_code # None /\ ~PyInList(error_code, {I(0), S("no_error")})}
    \cup {a \in {"cleaning_area"} :
            "CLEANING_AREA" \in robovac_supported /\ PyTruthy(cleaning_area)}
    \cup {a \in {"cleaning_time"} :
            "CLEANING_TIME" \in robovac_supported /\ PyTruthy(cleaning_time)}
    \cup {a \in {"auto_return"} :
            "AUTO_RETURN" \in robovac_supported /\ PyTruthy(auto_return)}
    \cup {a \in {"do_not_disturb"} :
            "DO_NOT_DISTURB" \in robovac_supported /\ PyTruthy(do_not_disturb)}
    \cup {a \in {"boost_iq"} : "BOOST_IQ" \in robovac_supported /\ PyTruthy(boost_iq)}
    \cup {a \in {"consumables"} :
            "CONSUMABLES" \in robovac_supported /\ PyTruthy(consumables)}
    \cup {a \in {"mode"} : PyTruthy(mode)}

(***************************************************************************)
(* The translator functions called directly on the RoboVac of an entity    *)
(***************************************************************************)
\* Command identifiers: the enum members and one name that is not a member
TranslateCommands == RobovacCommand \cup {"NOT_A_COMMAND"}

MappedCommands(mc) == {c \in DOMAIN commands(mc) : HasCommandValues(mc, c)}

\* Argument values: every key and every value of the model's mappings, a
\* literal of a list-valued command, and a value no mapping lists
TranslateValues(mc) ==
    UNION { {S(h) : h \in DOMAIN CommandValues(mc, c)} : c \in MappedCommands(mc) }
    \cup UNION { {CommandValues(mc, c)[h] : h \in DOMAIN CommandValues(mc, c)} :
                 c \in MappedCommands(mc) }
    \cup {S("forward"), S("unlisted"), I(0)}

SupportedConfigModels == {m \in ConfigModels : ModelSupported(ModelCodePrefix(m))}

InitTranslate ==
    \E cfgModel \in SupportedConfigModels :
        /\ InitEntity("core", cfgModel, S("192.168.1.100"))
        /\ SingleDevice
        /\ \E cmd \in TranslateCommands, v \in TranslateValues(ModelCodePrefix(cfgModel)) :
              tr = [fn |-> "input", model |-> ModelCodePrefix(cfgModel), cmd |-> cmd,
                    arg |-> v, out |-> None, warn |-> 0]

Entity == <<peer, config, removed, update_failures, dps, tuyastatus, derived, last,
            decode_warnings, poll_pc>>

\* self.vacuum.getRoboVacCommandValue(cmd, arg)
CallCommandValue ==
    /\ tr.fn = "input"
    /\ tr' = [tr EXCEPT !.fn = "getRoboVacCommandValue",
                        !.out = getRoboVacCommandValue(mcode, tr.cmd, tr.arg)]
    /\ UNCHANGED Entity

\* self.vacuum.getRoboVacHumanReadableValue(cmd, arg)
CallHumanReadable ==
    /\ tr.fn = "input"
    /\ tr' = [tr EXCEPT !.fn = "getRoboVacHumanReadableValue",
                        !.out = getRoboVacHumanReadableValue(mcode, tr.cmd, tr.arg),
                        !.warn = HumanReadableWarnings(mcode, tr.cmd, tr.arg)]
    /\ UNCHANGED Entity

\* getRoboVacHumanReadableValue(cmd, getRoboVacCommandValue(cmd, arg))
CallRoundTrip ==
    /\ tr.fn = "input"
    /\ tr' = [tr EXCEPT !.fn = "round_trip",
                        !.out = getRoboVacHumanReadableValue(mcode, tr.cmd,
                                    getRoboVacCommandValue(mcode, tr.cmd, tr.arg))]
    /\ UNCHANGED Entity

\* A poll that fails before the translator is called
FailedPollBeforeCall ==
    /\ tr.fn = "input"
    /\ AsyncUpdateFailed

NextTranslate ==
    \/ FailedPollBeforeCall
    \/ CallCommandValue
    \/ CallHumanReadable
    \/ CallRoundTrip

SpecTranslate == InitTranslate /\ [][NextTranslate]_vars

(***************************************************************************)
(* The DP-code resolver called directly on an entity                       *)
(***************************************************************************)
\* Logical field names: the commands under their DPS names, the names of
\* the default table, the command names BATTERY and ERROR themselves, and a
\* name nothing declares
FieldNames ==
    {DpsName(c) : c \in RobovacCommand} \cup DOMAIN TuyaCodes
        \cup {"BATTERY", "ERROR", "NOT_A_FIELD"}

InitResolve ==
    \E cfgModel \in ConfigModels, field \in FieldNames :
        /\ InitEntity("core", cfgModel, S("192.168.1.100"))
        /\ SingleDevice
        /\ tr = [fn |-> "input", model |-> ModelCodePrefix(cfgModel), cmd |-> field,
                 arg |-> None, out |-> None, warn |-> 0]

\* self._get_dps_code(field)
CallGetDpsCode ==
    /\ tr.fn = "input"
    /\ tr' = [tr EXCEPT !.fn = "_get_dps_code",
                        !.out = S(get_dps_code(vacuum, mcode, tr.cmd))]
    /\ UNCHANGED Entity

NextResolve == CallGetDpsCode

SpecResolve == InitResolve /\ [][NextResolve]_vars

(***************************************************************************)
(* Properties of the update controller                                     *)
(***************************************************************************)
FailedPoll == Op("async_update", <<GetCall(FALSE)>>, FALSE)

SuccessfulPoll == Op("async_update", <<GetCall(TRUE)>>, FALSE)

Pushed == Op("pushed_update_handler", <<WriteHaStateCall>>, FALSE)

\* C1: a poll whose transport get fails increments the failure counter by
\* exactly 1; the failed poll that brings the counter to 3 sets the error
\* value to "CONNECTION_FAILED", and a failed poll that leaves the counter at
\* 1 or 2 leaves the error value as it was.
C1_RetryEscalation ==
    [][ last' = FailedPoll =>
          /\ update_failures' = update_failures + 1
          /\ update_failures' = 3 => error_code' = S("CONNECTION_FAILED")
          /\ update_failures' \in {1, 2} => error_code' = error_code ]_vars

C1_Witness ==
    /\ last = FailedPoll
    /\ update_failures = 3
    /\ error_code = S("CONNECTION_FAILED")
    /\ tuya_state # None

\* C2: after pushed_update_handler runs, and after a successful update(),
\* the failure counter is 0 whatever it was before.
C2_EverySuccessResets ==
    (last = Pushed \/ last = SuccessfulPoll) => update_failures = 0

\* C3: after a poll whose transport get succeeds the counter is 0 and the
\* CONNECTION_FAILED sentinel is no longer surfaced, for every snapshot the
\* transport can hold, the empty one included.
C3_RecoveryToReady ==
    last = SuccessfulPoll =>
        /\ update_failures = 0
        /\ error_code # S("CONNECTION_FAILED")

\* C4: an entity whose model code (the first 5 characters of the configured
\* model string) is not in the registry has error value "UNSUPPORTED_MODEL",
\* no device handle and empty capability masks in every state, and none of
\* its operations has invoked a transport operation.
C4_UnsupportedPermanent ==
    ModelCodePrefix(model_code) \notin ROBOVAC_MODELS =>
        /\ error_code = S("UNSUPPORTED_MODEL")
        /\ ~vacuum
        /\ supported_features = {}
        /\ robovac_supported = {}
        /\ last.calls = NoCalls

C4_Witness ==
    /\ model_code = <<"T", "2", "0", "8">>
    /\ last.op = "async_will_remove_from_hass"
    /\ error_code = S("UNSUPPORTED_MODEL")

\* C25: transport failures never stop polling: on an entity with a vacuum
\* object and an IP address every update, after any number of failed polls,
\* calls the transport get exactly once; an update skips the transport only
\* for an unsupported model, a missing IP address (error value "IP_ADDRESS")
\* or a missing vacuum object ("INITIALIZATION_FAILED"), and then leaves the
\* failure counter unchanged.
C25_PollingNeverStops ==
    [][ last'.op = "async_update" =>
          IF vacuum /\ PyTruthy(ip_address)
          THEN /\ Len(last'.calls) = 1
               /\ last'.calls[1].fn = "get"
          ELSE /\ last'.calls = NoCalls
               /\ update_failures' = update_failures
               /\ error_code' \in {S("UNSUPPORTED_MODEL"), S("IP_ADDRESS"),
                                   S("INITIALIZATION_FAILED")}
               /\ (vacuum /\ ~PyTruthy(ip_address)) => error_code' = S("IP_ADDRESS") ]_vars

\* A poll that called the transport on a device already marked unreachable
C25_Witness ==
    /\ last.op = "async_update"
    /\ last.calls = <<GetCall(FALSE)>>
    /\ update_failures = UPDATE_RETRIES + 1
    /\ error_code = S("CONNECTION_FAILED")

\* C23: every poll whose transport get fails, with the default binding or
\* with the T2276 binding, adds 1 to the failure counter and returns to the
\* host without raising.
C23_PollFailureContained ==
    [][ (last'.op = "async_update" /\ Len(last'.calls) = 1 /\ ~last'.calls[1].ok) =>
          /\ update_failures' = update_failures + 1
          /\ ~last'.raised ]_vars

\* C18: once the entity is removed, removal was its last operation and
\* called the transport's disable() exactly once if the vacuum object
\* exists, whatever the failure counter and error value; without a vacuum
\* object (unsupported model) it made no transport call; it did not raise.
C18_RemovalDisables ==
    removed =>
        /\ last.op = "async_will_remove_from_hass"
        /\ ~last.raised
        /\ vacuum => last.calls = <<DisableCall>>
        /\ ~vacuum => last.calls = NoCalls

\* Removal of a device that is marked unreachable
C18_Witness ==
    /\ removed
    /\ vacuum
    /\ update_failures >= UPDATE_RETRIES
    /\ error_code = S("CONNECTION_FAILED")
    /\ last.calls = <<DisableCall>>

(***************************************************************************)
(* Properties of the command dispatch surface                              *)
(***************************************************************************)
\* C14: async_start on an initialized device issues exactly one transport
\* set whose payload is the single entry resolve(MODE) -> toDeviceValue(MODE,
\* "auto"); for T2278 that payload is {"152": "BBoCCAE="}.
C14_StartPayload ==
    (vacuum /\ last.op = "async_start") =>
        /\ Len(last.calls) = 1
        /\ last.calls[1].fn = "set"
        /\ last.calls[1].key = get_dps_code(TRUE, mcode, "MODE")
        /\ last.calls[1].val = getRoboVacCommandValue(mcode, "MODE", S("auto"))
        /\ mcode = "T2278" =>
              /\ last.calls[1].key = "152"
              /\ last.calls[1].val = S("BBoCCAE=")

C14_Witness ==
    /\ mcode = "T2278"
    /\ last.op = "async_start"
    /\ last.calls = <<SetCall("152", S("BBoCCAE="), TRUE)>>

\* The flag values _is_value_true accepts
IsTrueFlag(v) == v \in {B(TRUE), S("True"), S("true"), S("TRUE")}

ToggleFields ==
    ("autoReturn" :> "AUTO_RETURN") @@ ("doNotDisturb" :> "DO_NOT_DISTURB")
        @@ ("boostIQ" :> "BOOST_IQ")

\* C27: send_command with "autoReturn", "doNotDisturb" or "boostIQ" on an
\* entity with a vacuum object makes exactly one transport set with the
\* single entry resolve(field) -> not b, where b is true exactly when the
\* cached flag is True, "True" or "true" in any case; it leaves the cached
\* flags as they were, so a second toggle without an update in between
\* sends the same value; an unrecognized command, and "roomClean" whose
\* params are no mapping, make no transport call.
C27_Toggle ==
    [][ (vacuum /\ last'.op = "async_send_command") =>
          LET command == last'.args[1]
              params == last'.args[2]
              Cached(c) == IF c = "autoReturn" THEN auto_return
                           ELSE IF c = "doNotDisturb" THEN do_not_disturb
                           ELSE boost_iq
          IN  /\ command \in DOMAIN ToggleFields =>
                    /\ Len(last'.calls) = 1
                    /\ last'.calls[1].fn = "set"
                    /\ last'.calls[1].key =
                          get_dps_code(TRUE, mcode, ToggleFields[command])
                    /\ last'.calls[1].val = B(~IsTrueFlag(Cached(command)))
                    /\ (last.op = "async_send_command" /\ last.args[1] = command) =>
                          last'.calls[1].val = last.calls[1].val
              /\ <<auto_return', do_not_disturb', boost_iq'>> =
                    <<auto_return, do_not_disturb, boost_iq>>
              /\ command = "unknownCommand" => last'.calls = NoCalls
              /\ (command = "roomClean" /\ params \in {"None", "list"}) =>
                    last'.calls = NoCalls ]_vars

\* A toggle of auto-return sent False because the cached flag is "true"
C27_Witness ==
    /\ last.op = "async_send_command"
    /\ last.args[1] = "autoReturn"
    /\ auto_return = S("true")
    /\ boost_iq = S("False")
    /\ last.calls[1].val = B(FALSE)

\* The command whose values each lifecycle hook looks up
HookCommand ==
    ("async_start" :> "MODE") @@ ("async_pause" :> "START_PAUSE")
        @@ ("async_return_to_base" :> "RETURN_HOME") @@ ("async_stop" :> "RETURN_HOME")
        @@ ("async_set_fan_speed" :> "FAN_SPEED")

\* C28: for every registered model, start, pause, return_to_base/stop and
\* set_fan_speed with a label of the model's fan-speed list put into the
\* transport set one of the declared device-side values of the command's
\* value mapping, when the model declares one (compared in string form).
C28_DeclaredValuesSent ==
    (/\ vacuum
     /\ last.op \in DOMAIN HookCommand
     /\ HasCommandValues(mcode, HookCommand[last.op])
     /\ last.op = "async_set_fan_speed" =>
            last.args[1] \in {PyStr(v) : v \in getFanSpeeds(mcode)})
    => /\ Len(last.calls) = 1
       /\ PyStr(last.calls[1].val) \in
             {PyStr(CommandValues(mcode, HookCommand[last.op])[h]) :
                h \in DOMAIN CommandValues(mcode, HookCommand[last.op])}

\* The public command-dispatch surface
CommandOps ==
    {"async_locate", "async_return_to_base", "async_start", "async_pause", "async_stop",
     "async_clean_spot", "async_set_fan_speed", "async_send_command"}

\* C16: no operation of the command-dispatch surface raises to the host, in
\* any state of the device and also when the transport set fails.
C16_NoCommandRaises ==
    last.op \in CommandOps => ~last.raised

\* C17: a command operation invokes the transport set at most once, never
\* again after a failure, and leaves the consecutive-failure counter and the
\* connection-failed sentinel as they were, whether the set succeeds or fails.
C17_NoRetry ==
    [][ last'.op \in CommandOps =>
          /\ Len(last'.calls) <= 1
          /\ \A i \in 1..Len(last'.calls) : last'.calls[i].fn = "set"
          /\ update_failures' = update_failures
          /\ error_code' = error_code ]_vars

\* A command whose set failed on a device that is marked unreachable
C17_Witness ==
    /\ last.op \in CommandOps
    /\ Len(last.calls) = 1
    /\ ~last.calls[1].ok
    /\ update_failures = UPDATE_RETRIES
    /\ error_code = S("CONNECTION_FAILED")

(***************************************************************************)
(* Properties of the activity derivation                                   *)
(***************************************************************************)
StatusPresent == tuya_state # None /\ ~PyEq(tuya_state, SENTINEL_NO_STATE)

ErrorPresent == error_code # None /\ ~PyInList(error_code, {I(0), S("no_error")})

\* C5: whenever the status value is present and is not the sentinel 0, and
\* the error value is present and not in {0, "no_error"}, the activity is
\* ERROR, with or without an activity map.
C5_ErrorPrecedence ==
    (StatusPresent /\ ErrorPresent) => activity = "error"

\* C5 as amended: whenever the status value is present and is not the
\* sentinel 0, and the error value is truthy (not None, not the empty
\* string) and not in {0, "no_error"}, the activity is ERROR, with or
\* without an activity map.
C5_TruthyErrorPrecedence ==
    (StatusPresent /\ ErrorPresent /\ PyTruthy(error_code)) => activity = "error"

C5_Witness ==
    /\ mcode = "T2080"
    /\ tuya_state = S("Auto Cleaning")
    /\ error_code = S("E001")
    /\ activity = "error"

\* C6: whenever the status value is None or the sentinel 0 the activity is
\* None, also when an error sentinel is set; and a successful poll or push
\* whose snapshot lacks the status DP leaves the status at the sentinel 0.
C6_NoStatusPrecedence ==
    /\ ~StatusPresent => activity = "none"
    /\ ((last = SuccessfulPoll \/ last = Pushed) /\ Get(dps, Code("STATUS")) = None)
          => tuya_state = SENTINEL_NO_STATE

\* C7: for a model that declares an activity map, with no error present, a
\* status that is a key of the map yields the mapped activity and any other
\* status yields None.
C7_MapStrictness ==
    (vacuum /\ HasActivityMapping(mcode) /\ StatusPresent /\ ~ErrorPresent) =>
        IF PyStr(tuya_state) \in DOMAIN T2080_activity_mapping
        THEN activity = T2080_activity_mapping[PyStr(tuya_state)]
        ELSE activity = "none"

C7_Witness ==
    /\ mcode = "T2080"
    /\ tuya_state = S("Recharge")
    /\ error_code = I(0)
    /\ activity = "none"

\* C8: for a model with no activity map, with status present and no error,
\* the activity is DOCKED for "Charging" or "completed", RETURNING for
\* "Recharge", IDLE for "Sleeping" or "standby", PAUSED for "Paused" and
\* CLEANING for every other status.
C8_LegacyHeuristic ==
    (vacuum /\ ~HasActivityMapping(mcode) /\ StatusPresent /\ ~ErrorPresent) =>
        activity =
            CASE tuya_state \in {S("Charging"), S("completed")} -> "docked"
              [] tuya_state = S("Recharge")                     -> "returning"
              [] tuya_state \in {S("Sleeping"), S("standby")}   -> "idle"
              [] tuya_state = S("Paused")                       -> "paused"
              [] OTHER                                          -> "cleaning"

C8_Witness ==
    /\ mcode = "T2193"
    /\ tuya_state = S("Paused")
    /\ ~ErrorPresent
    /\ activity = "paused"

\* C13: for model T2080, after a successful update on the snapshot
\* {"153": "BhAHQgBSAA==", "163": "85", "106": 0} the battery level is 85,
\* the status is "Standby", the activity is IDLE, the error value is 0 and
\* the extra state attributes hold no error entry.
C13_EndToEnd ==
    (mcode = "T2080" /\ last = SuccessfulPoll /\ dps = E2ESnapshot) =>
        /\ battery_level = 85
        /\ tuya_state = S("Standby")
        /\ activity = "idle"
        /\ error_code = I(0)
        /\ "error" \notin extra_state_attributes

C13_Witness ==
    /\ mcode = "T2080"
    /\ last = SuccessfulPoll
    /\ dps = E2ESnapshot
    /\ battery_level = 85
    /\ activity = "idle"

(***************************************************************************)
(* Properties of the cleaning statistics                                   *)
(***************************************************************************)
Payload42 == S("eydjb25zdW1hYmxlJzogeydkdXJhdGlvbic6IDQyfX0=")

Payload7 == S("eydjb25zdW1hYmxlJzogeydkdXJhdGlvbic6IDd9fQ==")

NoDurationPayloads == {S("eydjb25zdW1hYmxlJzoge319"), S("eydvdGhlcic6IDF9")}

\* The step is a poll or push of an entity with the consumables capability
\* that recomputed the derived state from a non-empty snapshot
RecomputedConsumables ==
    /\ last' \in {SuccessfulPoll, Pushed}
    /\ vacuum
    /\ "CONSUMABLES" \in robovac_supported
    /\ ~IsEmptyDict(dps')

\* C15: on a model with the consumables capability a recomputation whose
\* snapshot holds the base64 of {'consumable': {'duration': 42}} in a
\* consumables DP (and no later consumables DP that decodes to a duration)
\* sets the cached duration to 42; when no consumables DP decodes to a
\* duration (each fails base64 decoding, text decoding or literal parsing, or
\* parses without consumable.duration) the cached duration is unchanged; a
\* string value that fails logs a warning; and the update does not raise.
C15_ConsumablesDecoding ==
    [][ RecomputedConsumables =>
          LET codes == get_consumables_codes(TRUE, mcode)
              Val(i) == Get(dps', codes[i])
              IsStr(i) == Val(i) # None /\ Val(i).k = "str"
              Dur(i) == Val(i) \in {Payload42, Payload7}
              Fails(i) == IsStr(i) /\ ~Dur(i) /\ Val(i) \notin NoDurationPayloads
          IN  /\ \A i \in 1..Len(codes) :
                    (Val(i) = Payload42 /\ \A j \in (i + 1)..Len(codes) : ~Dur(j))
                        => consumables' = I(42)
              /\ (\A i \in 1..Len(codes) : ~Dur(i)) => consumables' = consumables
              /\ decode_warnings' = Cardinality({i \in 1..Len(codes) : Fails(i)})
              /\ ~last'.raised ]_vars

\* A duration of 42 decoded earlier is still cached after a recomputation
\* whose consumables DP failed to decode and logged a warning
C15_Witness ==
    /\ last \in {SuccessfulPoll, Pushed}
    /\ Get(dps, TUYA_CONSUMABLES_CODES[1]) = S("abc")
    /\ Get(dps, TUYA_CONSUMABLES_CODES[2]) = None
    /\ decode_warnings = 1
    /\ consumables = I(42)

(***************************************************************************)
(* Properties of the derived state                                         *)
(***************************************************************************)
\* The derived fields update_entity_values leaves when it runs on snapshot t
\* in the current state
RecomputeOf(t) ==
    IF IsEmptyDict(t) THEN derived
    ELSE <<NewBatteryLevel(t), NewTuyaState(t, tuya_state), NewErrorCode(t), NewMode(t),
           NewFanSpeed(t), NewCleaningArea(t, cleaning_area),
           NewCleaningTime(t, cleaning_time), NewFlag(t, "AUTO_RETURN", auto_return),
           NewFlag(t, "DO_NOT_DISTURB", do_not_disturb), NewFlag(t, "BOOST_IQ", boost_iq),
           NewConsumables(t, consumables)>>

C29_FailedPollFrame ==
    [][ last' = FailedPoll =>
          /\ update_failures' = update_failures + 1
          /\ <<dps, tuyastatus, battery_level, tuya_state, mode, fan_speed,
               cleaning_area, cleaning_time, auto_return, do_not_disturb, boost_iq,
               consumables>>' =
             <<dps, tuyastatus, battery_level, tuya_state, mode, fan_speed,
               cleaning_area, cleaning_time, auto_return, do_not_disturb, boost_iq,
               consumables>>
          /\ error_code' # error_code =>
                update_failures' >= 3 /\ error_code' = S("CONNECTION_FAILED")
          /\ update_failures' < 3 => error_code' = error_code /\ activity' = activity
          /\ activity' # activity => error_code' # error_code ]_vars

\* The third failed poll in a row of an entity that holds a decoded snapshot
\* with cleaning statistics: only the counter and the error value moved
C29_Witness ==
    /\ last = FailedPoll
    /\ update_failures = 3
    /\ error_code = S("CONNECTION_FAILED")
    /\ ~IsEmptyDict(tuyastatus)
    /\ cleaning_time # None
    /\ tuya_state # None

\* C30: in every reachable state the extra state attributes hold an error
\* entry exactly when the error value is not None and equals neither 0 nor
\* "no_error"; whenever the activity is ERROR the entry is present, and the
\* entry can be present while the activity is unknown.
C30_ErrorAttribute ==
    /\ ("error" \in extra_state_attributes) <=>
          (error_code # None /\ ~PyEq(error_code, I(0)) /\ ~PyEq(error_code, S("no_error")))
    /\ activity = "error" => "error" \in extra_state_attributes

\* Three failed polls of an entity that never decoded a status: the sentinel
\* shows as an error entry while the activity is unknown
C30_Witness ==
    /\ error_code = S("CONNECTION_FAILED")
    /\ tuya_state = None
    /\ activity = "none"
    /\ "error" \in extra_state_attributes
    /\ last = FailedPoll

\* C26: after every successful update whose snapshot holds the AUTO_RETURN,
\* DO_NOT_DISTURB or BOOST_IQ DP, the corresponding derived flag is the
\* string form of that DP's value, with or without a cleaning-time DP.
C26_FlagsFollowSnapshot ==
    (vacuum /\ last = SuccessfulPoll) =>
        LET Dp(name) == Get(dps, get_dps_code(TRUE, mcode, name))
        IN  /\ Dp("AUTO_RETURN") # None => auto_return = S(PyStr(Dp("AUTO_RETURN")))
            /\ Dp("DO_NOT_DISTURB") # None =>
                  do_not_disturb = S(PyStr(Dp("DO_NOT_DISTURB")))
            /\ Dp("BOOST_IQ") # None => boost_iq = S(PyStr(Dp("BOOST_IQ")))

ProjectionOf(t) ==
    <<NewBatteryLevel(t), NewTuyaState(t, None), NewErrorCode(t), NewMode(t),
      NewFanSpeed(t), NewCleaningArea(t, None), NewCleaningTime(t, None),
      NewFlag(t, "AUTO_RETURN", None), NewFlag(t, "DO_NOT_DISTURB", None),
      NewFlag(t, "BOOST_IQ", None), NewConsumables(t, None)>>

\* C19: the derived fields are a deterministic projection of the last
\* snapshot: whatever polls, pushes and commands came before, an entity
\* whose last applied snapshot is t holds the derived fields of any other
\* entity of its model whose last snapshot is t, that is, those of an entity
\* that only ever received t.
C19_DeterministicProjection ==
    (vacuum /\ ~IsEmptyDict(tuyastatus)) => derived = ProjectionOf(tuyastatus)

\* C20: when a push arrives while a poll of the same device is suspended in
\* the transport get, the push and then the poll each apply and recompute in
\* one piece; once both have completed the entity holds the latest snapshot
\* and its derived fields are the projection of that snapshot alone, not a
\* mixture of the two snapshots.
C20_PollPushAtomicity ==
    [][ (poll_pc = "awaiting" /\ last = Pushed /\ poll_pc' = "idle"
           /\ last' = SuccessfulPoll) =>
          /\ tuyastatus' = dps'
          /\ derived' = ProjectionOf(dps') ]_vars

(***************************************************************************)
(* Properties of a host with two entities                                  *)
(***************************************************************************)
\* C21: every operation on one entity (the start and the successful or
\* failed return of a poll, a push, a command, removal) leaves the other
\* entity's snapshot, failure counter, error value and derived state as they
\* were, in whatever order the operations of the two entities run.
C21_DeviceIndependence ==
    [][ focus' = focus => other' = other ]_vars

\* Entity A is marked unreachable after three failed polls while entity B of
\* the same model holds a snapshot and no failure
C21_Witness ==
    /\ focus = "B"
    /\ other.model_code = model_code
    /\ other.update_failures = UPDATE_RETRIES
    /\ other.error_code = S("CONNECTION_FAILED")
    /\ update_failures = 0
    /\ ~IsEmptyDict(tuyastatus)
    /\ error_code # S("CONNECTION_FAILED")
    /\ last = Pushed

(***************************************************************************)
(* Properties of the command translator                                    *)
(***************************************************************************)
\* The command is a member of the enum, the model declares it, and its
\* values are a mapping that has the argument as a key
IsMappedKey(mc, cmd, v) ==
    /\ cmd \in RobovacCommand
    /\ cmd \in DOMAIN commands(mc)
    /\ commands(mc)[cmd].vkind = "map"
    /\ v.k = "str"
    /\ v.s \in DOMAIN commands(mc)[cmd].vmap

C11_DecodingMiss ==
    [][ (tr.fn = "input" /\ tr'.fn = "getRoboVacHumanReadableValue") =>
          /\ IF IsMappedKey(tr.model, tr.cmd, tr.arg)
             THEN /\ tr'.out = commands(tr.model)[tr.cmd].vmap[tr.arg.s]
                  /\ tr'.warn = 0
             ELSE /\ tr'.out = tr.arg
                  /\ tr'.warn = 1
          /\ update_failures' = update_failures
          /\ error_code' = error_code ]_vars

\* C11 as amended: as C11, but a hit returns the string form str() of the
\* mapped value.
C11_DecodingMissStr ==
    [][ (tr.fn = "input" /\ tr'.fn = "getRoboVacHumanReadableValue") =>
          /\ IF IsMappedKey(tr.model, tr.cmd, tr.arg)
             THEN /\ tr'.out = S(PyStr(commands(tr.model)[tr.cmd].vmap[tr.arg.s]))
                  /\ tr'.warn = 0
             ELSE /\ tr'.out = tr.arg
                  /\ tr'.warn = 1
          /\ update_failures' = update_failures
          /\ error_code' = error_code ]_vars

C11_Witness ==
    /\ tr.fn = "getRoboVacHumanReadableValue"
    /\ tr.model = "T2080"
    /\ tr.cmd = "STATUS"
    /\ tr.arg = S("unlisted")
    /\ tr.out = S("unlisted")
    /\ tr.warn = 1
    /\ update_failures = 3
    /\ error_code = S("CONNECTION_FAILED")

\* C10: for every model, every command whose values are a mapping and every
\* declared key h, getRoboVacHumanReadableValue(getRoboVacCommandValue(h))
\* equals h.
C10_RoundTrip ==
    (tr.fn = "round_trip" /\ IsMappedKey(tr.model, tr.cmd, tr.arg)) => tr.out = tr.arg

(***************************************************************************)
(* Properties of the DP-code resolver                                      *)
(***************************************************************************)
\* The command of model mc that is reported under field name f
DeclaringCommands(mc, f) ==
    IF mc \notin ROBOVAC_MODELS THEN {}
    ELSE {c \in DOMAIN commands(mc) :
            \/ c = "BATTERY" /\ f = "BATTERY_LEVEL"
            \/ c = "ERROR" /\ f = "ERROR_CODE"
            \/ c \notin {"BATTERY", "ERROR"} /\ c = f}

\* C12: _get_dps_code returns the declared code of the model as a string
\* when the model declares the command (BATTERY under BATTERY_LEVEL, ERROR
\* under ERROR_CODE, the others under their own name), otherwise the default
\* code of the field, otherwise the empty string.
C12_ResolveNeverFails ==
    tr.fn = "_get_dps_code" =>
        IF DeclaringCommands(tr.model, tr.cmd) # {}
        THEN \A c \in DeclaringCommands(tr.model, tr.cmd) :
                tr.out = S(PyStr(commands(tr.model)[c].code))
        ELSE IF tr.cmd \in DOMAIN TuyaCodes THEN tr.out = S(TuyaCodes[tr.cmd])
        ELSE tr.out = S("")

C12_Witness ==
    /\ tr.fn = "_get_dps_code"
    /\ tr.model = "T2278"
    /\ tr.cmd = "LOCATE"
    /\ tr.out = S("153")
    /\ get_dps_code(TRUE, "T2278", "RETURN_HOME") = "153"

====
